---- MODULE Spec2Model ----
(***************************************************************************)
(* BoxHunt: image harvesting pipeline.                                     *)
(*                                                                         *)
(*   StorageManager  (src/boxhunt/storage.py)                              *)
(*   WebsiteClient   (src/boxhunt/website_client.py)                       *)
(*   the keyword API clients (src/boxhunt/api_clients.py)                  *)
(*   the construction of APIManager (api_clients.py), ImageProcessor       *)
(*   (image_processor.py) and BoxHuntCrawler (crawler.py), and             *)
(*   cmd_crawl_site (main.py), up to the exception each ends with under    *)
(*   the Config of config.py                                               *)
(*                                                                         *)
(* Text values (perceptual hashes) are sequences of hexadecimal digits     *)
(* 0..15, so that what the CSV reader does to a column of them can be      *)
(* computed.                                                               *)
(***************************************************************************)
EXTENDS Integers, Sequences, FiniteSets, TLC

VARIABLES
    \* ---- metadata store and images directory (StorageManager) ----
    store,              \* rows of metadata.csv below the header, in file order
    files,              \* names of the files in the images directory
    now,                \* the clock: datetime.now() in export_metadata
    lastCleanup,        \* ghost: the last cleanup_orphaned_files call
    \* ---- the components the crawl commands build ----
    api_keys,           \* the API keys set in the environment (.env)
    api_manager,        \* APIManager(): "unbuilt", or the exception it raised
    image_processor,    \* ImageProcessor(): "unbuilt", or the exception it raised
    crawler,            \* BoxHuntCrawler(): "unbuilt", or the exception it raised
    crawl_site,         \* cmd_crawl_site: "idle", or the exception it ended with
    \* ---- WebsiteClient.scrape_website ----
    max_depth,          \* WebsiteClient.max_depth
    respect_robots,     \* WebsiteClient.respect_robots
    robots_cache,       \* WebsiteClient.robots_cache: base URL -> parser
    robotsRequests,     \* ghost: the GETs of robots.txt this client has made
    base_url,           \* WebsiteClient.base_url: the seed's netloc
    visited_urls,       \* WebsiteClient.visited_urls
    crawlPc,            \* "idle" | "running" | "done"
    crawlAwait,         \* the await a running call is suspended at:
                        \* "none" | "page" | "links" | "sleep"
    max_images,         \* scrape_website's max_images
    urls_to_visit,      \* the frontier: (url, depth) in queue order
    results,            \* the ImageResults collected so far
    seen_urls,          \* the image URLs collected so far
    seed,               \* ghost: the url scrape_website was called with
    visitLog,           \* ghost: the pages marked visited and scraped, in order
    pushedUrls,         \* ghost: the URLs _find_page_links put on the frontier
    crawlRequests,      \* ghost: the HTTP requests the scrape_website call issued
    calls,              \* two scrape_website calls on one client: each one's frame
    \* ---- StorageManager called on its own ----
    lastOp,             \* ghost: the last StorageManager call and what it returned
    exported,           \* the rows of the file export_metadata wrote, or None
    \* ---- one keyword API client's search_images ----
    client,             \* the client called: its provider, api_key and count
    clientPc,           \* "idle" | "requesting" | "returned" | "raised"
    clientRequests,     \* ghost: the HTTP requests the call has issued
    clientOut           \* the list search_images returned

storeVars == <<store, files, now, lastCleanup>>

buildVars == <<api_keys, api_manager, image_processor, crawler, crawl_site>>

crawlVars == <<max_depth, respect_robots, robots_cache, robotsRequests, base_url,
               visited_urls, crawlPc, crawlAwait, max_images, urls_to_visit,
               results, seen_urls, seed, visitLog, pushedUrls, crawlRequests>>

storeOpVars == <<lastOp, exported>>

clientVars == <<client, clientPc, clientRequests, clientOut>>

vars == <<storeVars, buildVars, crawlVars, storeOpVars, clientVars, calls>>

\* What the operations of one component leave alone
otherThanBuild == <<storeVars, crawlVars, storeOpVars, clientVars, calls>>

otherThanCrawl == <<storeVars, buildVars, storeOpVars, clientVars, calls>>

otherThanStore == <<buildVars, crawlVars, clientVars, calls>>

otherThanClient == <<storeVars, buildVars, crawlVars, storeOpVars, calls>>

None == [none |-> TRUE]

----------------------------------------------------------------------------
(* Bounds of the model                                                     *)

MaxStore == 2       \* rows the store may hold

MaxBatch == 2       \* records in one save_image_metadata call

MaxCrawlDepth == 2  \* the largest max_depth a WebsiteClient is built with

MaxItems == 2       \* items in one API response

----------------------------------------------------------------------------
(* Configuration (src/boxhunt/config.py) and library constants             *)

HashLen == 16

----------------------------------------------------------------------------
(* Perceptual hashes as hexadecimal text                                   *)

\* A 16-digit text whose last digits are `tail`, zero-filled on the left.
ZeroPad(tail) ==
    [i \in 1..HashLen |->
        IF i <= HashLen - Len(tail) THEN 0 ELSE tail[i - (HashLen - Len(tail))]]

----------------------------------------------------------------------------
(* What pandas.read_csv gives back for a column of texts                   *)

IsDecimal(s) == \A i \in 1..Len(s) : s[i] <= 9

RECURSIVE StripLeadingZeros(_)
\* str(int(text)) of a decimal text
StripLeadingZeros(s) ==
    IF Len(s) <= 1 THEN s
    ELSE IF s[1] = 0 THEN StripLeadingZeros(Tail(s))
    ELSE s

\* read_csv infers the type of a whole column: when every value reads as an
\* integer the column is int64 and .astype(str) prints the integers; any
\* other column keeps its texts. (Texts that read as floats, decimal digits
\* around one 'e', are outside the hashes modelled here.)
ReadCsvHashColumn(col) ==
    IF col # <<>> /\ \A i \in 1..Len(col) : IsDecimal(col[i])
    THEN [i \in 1..Len(col) |-> StripLeadingZeros(col[i])]
    ELSE col

HashColumn(rows) == [i \in 1..Len(rows) |-> rows[i].perceptual_hash]

\* StorageManager.get_existing_hashes
get_existing_hashes(rows) ==
    LET col == ReadCsvHashColumn(HashColumn(rows))
    IN  {col[i] : i \in 1..Len(col)}

----------------------------------------------------------------------------
(* The image URLs of the model and the records made of them               *)

Urls == {"u1", "u2", "u3"}

\* The perceptual_hash text of the record of a URL, 16 hexadecimal digits
\* as str(imagehash.average_hash(image)) prints them:
\*   u1 0000000000000000   a uniform image
\*   u2 000000000000001f   5 bits from u1 (a near-duplicate of u1)
\*   u3 000000000000003f   6 bits from u1, 1 bit from u2
\*   g1 .. g5 (ff0000, 00ff00, f0f000, 0f0f00, ffff00)   the images of the gallery
\*            site, at least 8 bits from each other and from u1, u2, u3
ImageHashOf(url) ==
    CASE url = "u1" -> ZeroPad(<<>>)
      [] url = "u2" -> ZeroPad(<<1, 15>>)
      [] url = "u3" -> ZeroPad(<<3, 15>>)
      [] url = "g1" -> ZeroPad(<<15, 15, 0, 0, 0, 0>>)
      [] url = "g2" -> ZeroPad(<<0, 0, 15, 15, 0, 0>>)
      [] url = "g3" -> ZeroPad(<<15, 0, 15, 0, 0, 0>>)
      [] url = "g4" -> ZeroPad(<<0, 15, 0, 15, 0, 0>>)
      [] url = "g5" -> ZeroPad(<<15, 15, 15, 15, 0, 0>>)

\* ImageResult: the fields a record is made of
Candidates == [url : Urls, source : {"pexels"}]

\* Config.ALLOWED_FORMATS
ALLOWED_FORMATS == {"jpg", "jpeg", "png", "webp"}

\* The first allowed format whose ".ext" occurs in the URL's path, else "jpg"
UrlExtension(url) ==
    CASE url = "u1" -> "jpg"
      [] url = "u2" -> "png"
      [] url = "u3" -> "webp"
      [] url \in {"g1", "g2", "g3", "g4", "g5"} -> "jpg"

\* The filename of a record, in the format of _generate_filename:
\* "{source}_{timestamp}_{url_hash}.{extension}"; the model takes the first
\* 12 digits of md5(url) to tell the URLs apart.
GenerateFilename(url, source, time) ==
    [stem |-> <<source, time, url>>, ext |-> UrlExtension(url)]

\* A metadata dict as save_image_metadata takes it: the keys it reads
Metadata(c, filename, phash) ==
    [filename |-> filename, url |-> c.url, source |-> c.source,
     perceptual_hash |-> phash]

----------------------------------------------------------------------------
(* Metadata store                                                          *)

RECURSIVE MaxId(_)
\* df["id"].max()
MaxId(rows) ==
    IF Len(rows) = 1 THEN rows[1].id
    ELSE LET m == MaxId(Tail(rows))
         IN  IF rows[1].id > m THEN rows[1].id ELSE m

\* Mutant: the next id is the largest id, not the one after it.
GetNextIdNoIncrement(rows) == IF Len(rows) > 0 THEN MaxId(rows) ELSE 1

\* StorageManager._get_next_id
GetNextId(rows) == IF Len(rows) > 0 THEN MaxId(rows) + 1 ELSE 1

\* The records save_image_metadata builds: ids next_id, next_id + 1, ...
NewRecords(metadata_list, next_id) ==
    [i \in 1..Len(metadata_list) |->
        [id |-> next_id + (i - 1),
         filename |-> metadata_list[i].filename,
         url |-> metadata_list[i].url,
         source |-> metadata_list[i].source,
         perceptual_hash |-> metadata_list[i].perceptual_hash]]

\* Mutant: the file is opened for writing, not for appending.
SaveImageMetadataOverwriting(rows, metadata_list) ==
    IF metadata_list = <<>> THEN rows
    ELSE NewRecords(metadata_list, GetNextId(rows))

\* StorageManager.save_image_metadata: the rows of the file afterwards
SaveImageMetadata(rows, metadata_list) ==
    IF metadata_list = <<>> THEN rows
    ELSE rows \o NewRecords(metadata_list, GetNextId(rows))

\* df["filename"] as a set (cleanup_orphaned_files)
MetadataFiles(rows) == {rows[i].filename : i \in 1..Len(rows)}

\* The files of the images directory whose name ends in an allowed format
\* (filename.lower().endswith("." + ext); ext holds the lower-cased ending)
ImageFiles(dir) == {f \in dir : f.ext \in ALLOWED_FORMATS}

\* Mutant: the store's filenames are not subtracted.
OrphanedFilesIgnoringStore(dir, rows) == ImageFiles(dir)

\* image_files - metadata_files
OrphanedFiles(dir, rows) == ImageFiles(dir) \ MetadataFiles(rows)

----------------------------------------------------------------------------
(* Bounded sequences                                                       *)

RECURSIVE SeqsUpTo(_, _)
\* The sequences over S of length 1..n
SeqsUpTo(S, n) ==
    IF n = 0 THEN {}
    ELSE {<<x>> : x \in S} \cup
         {Append(q, x) : q \in SeqsUpTo(S, n - 1), x \in S}

----------------------------------------------------------------------------
(* cleanup_orphaned_files, and the states the specifications start from     *)

\* StorageManager.cleanup_orphaned_files: os.remove of every orphaned file;
\* a removal that raises is logged and not counted.
CleanupOrphanedFiles(failing) ==
    LET orphaned == OrphanedFiles(files, store)
        removed == orphaned \ failing
    IN  /\ failing \subseteq orphaned
        /\ files' = files \ removed
        /\ lastCleanup' = [called |-> TRUE, dir |-> files, rows |-> store,
                           failing |-> failing, removed |-> removed,
                           returned |-> Cardinality(removed)]

NoCleanup == [called |-> FALSE, dir |-> {}, rows |-> <<>>, failing |-> {},
              removed |-> {}, returned |-> 0]

\* The data directory after StorageManager() on a new directory:
\* ensure_directories made an empty images directory and init_metadata_file
\* wrote the header row of metadata.csv.
EmptyDataDir ==
    /\ store = <<>>
    /\ files = {}
    /\ now = 0
    /\ lastCleanup = NoCleanup

\* No crawl command has run: none of the components is built, and the
\* environment sets no API key.
NothingBuilt ==
    /\ api_keys = {}
    /\ api_manager = "unbuilt"
    /\ image_processor = "unbuilt"
    /\ crawler = "unbuilt"
    /\ crawl_site = "idle"

\* No website client in use
NoCrawl ==
    /\ max_depth = 0
    /\ respect_robots = FALSE
    /\ robots_cache = <<>>
    /\ robotsRequests = <<>>
    /\ base_url = [scheme |-> "", netloc |-> "", path |-> ""]
    /\ visited_urls = {}
    /\ crawlPc = "idle"
    /\ crawlAwait = "none"
    /\ max_images = 0
    /\ urls_to_visit = <<>>
    /\ results = <<>>
    /\ seen_urls = {}
    /\ seed = None
    /\ visitLog = <<>>
    /\ pushedUrls = <<>>
    /\ crawlRequests = <<>>
    /\ calls = <<>>

\* No StorageManager call made on its own
NoStoreOps ==
    /\ lastOp = [name |-> "none"]
    /\ exported = None

\* No API client called on its own
NoClient ==
    /\ client = None
    /\ clientPc = "idle"
    /\ clientRequests = <<>>
    /\ clientOut = <<>>

----------------------------------------------------------------------------
(* The rows of a store and the files of an images directory                *)

\* Files in an images directory under names a record would not carry
ForeignFiles ==
    {[stem |-> <<"user", 0, "notes">>, ext |-> "txt"],
     [stem |-> <<"user", 0, "photo">>, ext |-> "jpeg"]}

\* The files under the names the records of the model's URLs carry
RecordFiles == {GenerateFilename(c.url, c.source, 0) : c \in Candidates}

\* The rows save_image_metadata writes for the records of `urls`, in order
RowsOf(urls) ==
    [i \in 1..Len(urls) |->
        [id |-> i,
         filename |-> GenerateFilename(urls[i], "pexels", 0),
         url |-> urls[i],
         source |-> "pexels",
         perceptual_hash |-> ImageHashOf(urls[i])]]

----------------------------------------------------------------------------
(* StorageManager: every operation, called in any order                    *)

\* StorageManager.get_existing_urls: the url column as a set
get_existing_urls(rows) == {rows[i].url : i \in 1..Len(rows)}

\* The rows pd.read_csv(self.metadata_file) gives: the hash column as
\* read_csv types it, the other columns as written
ReadCsv(rows) ==
    [i \in 1..Len(rows) |->
        [rows[i] EXCEPT !.perceptual_hash = ReadCsvHashColumn(HashColumn(rows))[i]]]

\* The file_size column of the row of a URL, in bytes
FileSizeOf(url) ==
    CASE url = "u1" -> 1024
      [] url = "u2" -> 4096
      [] url = "u3" -> 5000
      [] OTHER -> 2048

RECURSIVE SumFileSize(_)
\* df["file_size"].sum()
SumFileSize(rows) ==
    IF rows = <<>> THEN 0
    ELSE FileSizeOf(rows[1].url) + SumFileSize(Tail(rows))

\* Texts pd.read_csv reads as NaN (its default na_values, keep_default_na)
NaValues ==
    {"", "nan", "NaN", "-nan", "-NaN", "null", "NULL", "NA", "N/A", "n/a",
     "None", "<NA>", "#N/A", "#NA"}

\* get_statistics: total_images, total_size and the per-source counts.
\* df["source"].value_counts() leaves out the rows whose source was read
\* as NaN.
GetStatistics(rows) ==
    IF rows = <<>> THEN [total_images |-> 0, total_size |-> 0, sources |-> <<>>]
    ELSE [total_images |-> Len(rows),
          total_size |-> SumFileSize(rows),
          sources |-> [src \in {rows[i].source : i \in 1..Len(rows)} \ NaValues |->
                         Cardinality({i \in 1..Len(rows) : rows[i].source = src})]]

\* The metadata lists save_image_metadata is called with
MetadataLists ==
    {[i \in 1..Len(urls) |->
        Metadata([url |-> urls[i], source |-> "pexels"],
                 GenerateFilename(urls[i], "pexels", 0), ImageHashOf(urls[i]))] :
       urls \in SeqsUpTo(Urls, MaxBatch) \cup {<<>>}}

\* StorageManager() again on the same data directory (a later run):
\* ensure_directories finds the directories, init_metadata_file finds the
\* store and leaves it as it is.
StoreOpen ==
    /\ UNCHANGED otherThanStore
    /\ lastOp' = [name |-> "__init__", before |-> store, returned |-> None]
    /\ UNCHANGED <<storeVars, exported>>

\* save_image_metadata(metadata_list) -> True (ghost reopened: the call is
\* the first on a StorageManager built anew on the data directory)
StoreSave(metadata_list) ==
    /\ UNCHANGED otherThanStore
    /\ Len(store) + Len(metadata_list) <= MaxStore
    /\ store' = SaveImageMetadata(store, metadata_list)
    /\ lastOp' = [name |-> "save_image_metadata", before |-> store, returned |-> TRUE,
                  reopened |-> lastOp.name = "__init__"]
    /\ UNCHANGED <<files, now, lastCleanup, exported>>

\* get_existing_hashes()
StoreGetExistingHashes ==
    /\ UNCHANGED otherThanStore
    /\ lastOp' = [name |-> "get_existing_hashes", before |-> store,
                  returned |-> get_existing_hashes(store)]
    /\ UNCHANGED <<storeVars, exported>>

\* get_existing_urls()
StoreGetExistingUrls ==
    /\ UNCHANGED otherThanStore
    /\ lastOp' = [name |-> "get_existing_urls", before |-> store,
                  returned |-> get_existing_urls(store)]
    /\ UNCHANGED <<storeVars, exported>>

\* get_statistics()
StoreGetStatistics ==
    /\ UNCHANGED otherThanStore
    /\ lastOp' = [name |-> "get_statistics", before |-> store,
                  returned |-> GetStatistics(store)]
    /\ UNCHANGED <<storeVars, exported>>

\* cleanup_orphaned_files()
StoreCleanup(failing) ==
    /\ UNCHANGED otherThanStore
    /\ CleanupOrphanedFiles(failing)
    /\ lastOp' = [name |-> "cleanup_orphaned_files", before |-> store,
                  returned |-> Cardinality(OrphanedFiles(files, store) \ failing)]
    /\ UNCHANGED <<store, now, exported>>

\* export_metadata(format): the rows read from the store are written to a
\* new file data/metadata_export_<timestamp>.<format>
StoreExport(format) ==
    /\ UNCHANGED otherThanStore
    /\ exported' = [format |-> format, rows |-> ReadCsv(store)]
    /\ lastOp' = [name |-> "export_metadata", before |-> store,
                  returned |-> <<"metadata_export", now, format>>]
    /\ UNCHANGED storeVars

\* A StorageManager on a data directory whose images directory holds the
\* files the records of the model's URLs name
InitStore ==
    /\ store = <<>>
    /\ files = RecordFiles
    /\ now = 0
    /\ lastCleanup = NoCleanup
    /\ NothingBuilt
    /\ NoCrawl
    /\ NoStoreOps
    /\ NoClient

NextStore ==
    \/ StoreOpen
    \/ \E metadata_list \in MetadataLists : StoreSave(metadata_list)
    \/ StoreGetExistingHashes
    \/ StoreGetExistingUrls
    \/ StoreGetStatistics
    \/ \E failing \in SUBSET files : StoreCleanup(failing)
    \/ \E format \in {"csv", "json", "xlsx"} : StoreExport(format)

SpecStore == InitStore /\ [][NextStore]_vars

----------------------------------------------------------------------------
(* cleanup_orphaned_files on any store and any images directory           *)

\* A StorageManager on a data directory left by earlier use: any rows in the
\* store, any files in the images directory.
InitCleanup ==
    /\ store \in {RowsOf(urls) : urls \in SeqsUpTo(Urls, MaxStore) \cup {<<>>}}
    /\ files \in SUBSET (RecordFiles \cup ForeignFiles)
    /\ now = 0
    /\ lastCleanup = NoCleanup
    /\ NothingBuilt
    /\ NoCrawl
    /\ NoStoreOps
    /\ NoClient

NextCleanup == \E failing \in SUBSET files : StoreCleanup(failing)

SpecCleanup == InitCleanup /\ [][NextCleanup]_vars

----------------------------------------------------------------------------
(* get_statistics on the stores crawls leave behind                        *)

\* The source tags of the rows: the API clients' tags, and the tag
\* _extract_domain_name gives a site (the first label of its host name:
\* "example" for example.test, "nan" for nan.example)
StatSources == {"pexels", "unsplash", "example", "nan"}

\* A store written by save_image_metadata calls, of up to MaxStore rows
InitStats ==
    /\ store \in {<<>>} \cup
          {SaveImageMetadata(<<>>,
              [i \in 1..Len(cs) |->
                  Metadata(cs[i], GenerateFilename(cs[i].url, cs[i].source, 0),
                           ImageHashOf(cs[i].url))]) :
             cs \in SeqsUpTo([url : {"u1", "u2"}, source : StatSources], MaxStore)}
    /\ files = MetadataFiles(store)
    /\ now = 0
    /\ lastCleanup = NoCleanup
    /\ NothingBuilt
    /\ NoCrawl
    /\ NoStoreOps
    /\ NoClient

SpecStats == InitStats /\ [][StoreGetStatistics]_vars

----------------------------------------------------------------------------
(* The keyword API clients: BingAPIClient, UnsplashAPIClient,              *)
(* PexelsAPIClient                                                         *)

Providers == {"bing", "unsplash", "pexels"}

\* The largest page size each search_images sends
ProviderLimit(provider) ==
    CASE provider = "bing" -> 150
      [] provider = "unsplash" -> 30
      [] provider = "pexels" -> 80

\* The key of the response under which each provider lists its items
ProviderListKey(provider) ==
    CASE provider = "bing" -> "value"
      [] provider = "unsplash" -> "results"
      [] provider = "pexels" -> "photos"

\* Mutant: the requested count is sent as it is.
PageSizeUnclamped(count, limit) == count

\* min(count, limit)
PageSize(count, limit) == IF count < limit THEN count ELSE limit

\* The items of a response: an item either carries its image URLs (the dict
\* under 'urls' or 'src', the text under 'contentUrl') or lacks them
JsonItems == [url : {"u1", "u2"}, has_urls : BOOLEAN]

\* What the GET of _make_request can end in: a status other than 200, a
\* transport error, a 200 whose body is not JSON, a 200 whose JSON is null or
\* a dict listing items under one key
Responses ==
    {[kind |-> "status", status |-> st] : st \in {404, 429, 500}}
    \cup {[kind |-> "error"], [kind |-> "not_json"], [kind |-> "null"]}
    \cup {[kind |-> "dict", key |-> k, items |-> items] :
            k \in {"value", "results", "photos", "error"},
            items \in SeqsUpTo(JsonItems, MaxItems) \cup {<<>>}}

\* BaseAPIClient._make_request: the parsed body of a 200 response, None for
\* any other status and for any exception
MakeRequest(response) ==
    IF response.kind = "dict" THEN response ELSE None

\* Whether building the ImageResult of an item raises: Unsplash and Pexels
\* index item['urls'] / item['src'] (KeyError when absent), Bing uses
\* item.get
ItemRaises(provider, item) ==
    provider \in {"unsplash", "pexels"} /\ ~item.has_urls

\* The ImageResult built from an item
ItemResult(provider, item) ==
    [url |-> IF item.has_urls THEN item.url ELSE "", source |-> provider]

\* The providers whose search URL config.py defines: PEXELS_SEARCH_URL is
\* there, BING_SEARCH_URL and UNSPLASH_SEARCH_URL are not.
SearchUrls == {"pexels"}

\* search_images(query, count) up to its first await: without an api_key it
\* returns [] at once; with one it builds headers and params and, inside the
\* session, evaluates Config's search URL of the provider as the argument of
\* _make_request: Pexels sends the GET, Bing and Unsplash raise
\* AttributeError there, outside any try, and send nothing.
ClientCall(provider, api_key, count) ==
    /\ UNCHANGED otherThanClient
    /\ clientPc = "idle"
    /\ client' = [provider |-> provider, api_key |-> api_key, count |-> count]
    /\ clientOut' = <<>>
    /\ IF api_key = ""
       THEN /\ clientPc' = "returned"
            /\ clientRequests' = <<>>
       ELSE IF provider \in SearchUrls
       THEN /\ clientPc' = "requesting"
            /\ clientRequests' =
                  <<[provider |-> provider,
                     page_size |-> PageSize(count, ProviderLimit(provider))]>>
       ELSE /\ clientPc' = "raised"
            /\ clientRequests' = <<>>

\* search_images from the answer of its request on
ClientResponse(response) ==
    /\ UNCHANGED otherThanClient
    /\ clientPc = "requesting"
    /\ LET data == MakeRequest(response)
           provider == client.provider
       IN  IF data = None \/ data.key # ProviderListKey(provider)
           THEN /\ clientPc' = "returned"
                /\ clientOut' = <<>>
           ELSE IF \E i \in 1..Len(data.items) : ItemRaises(provider, data.items[i])
           THEN /\ clientPc' = "raised"
                /\ clientOut' = <<>>
           ELSE /\ clientPc' = "returned"
                /\ clientOut' = [i \in 1..Len(data.items) |->
                                   ItemResult(provider, data.items[i])]
    /\ UNCHANGED <<client, clientRequests>>

\* The caller has the outcome; the client is called again
ClientAgain ==
    /\ UNCHANGED otherThanClient
    /\ clientPc \in {"returned", "raised"}
    /\ clientPc' = "idle"
    /\ client' = None
    /\ clientRequests' = <<>>
    /\ clientOut' = <<>>

InitClient ==
    /\ EmptyDataDir
    /\ NothingBuilt
    /\ NoCrawl
    /\ NoStoreOps
    /\ NoClient

\* The counts search_images is called with: below, at and above the limits
Counts == {1, 20, 30, 31, 80, 81, 150, 151}

NextClient ==
    \/ \E provider \in Providers, api_key \in {"", "key"}, count \in Counts :
          ClientCall(provider, api_key, count)
    \/ \E response \in Responses : ClientResponse(response)
    \/ ClientAgain

SpecClient == InitClient /\ [][NextClient]_vars

----------------------------------------------------------------------------
(* WebsiteClient.scrape_website                                            *)

\* An https URL as urlparse reads it: scheme, netloc and path
Url(netloc, path) == [scheme |-> "https", netloc |-> netloc, path |-> path]

\* An href as written in a page: scheme and netloc are "" when the href gives
\* none, fragment is what follows "#".
Href(scheme, netloc, path, fragment) ==
    [scheme |-> scheme, netloc |-> netloc, path |-> path, fragment |-> fragment]

\* The site: the hrefs of the <a> tags of each page
PageHrefs(url) ==
    CASE url = Url("a.test", "/") ->
            {Href("", "", "/p1", ""), Href("", "", "/p2", ""),
             Href("https", "b.test", "/x", ""), Href("", "", "/", "top"),
             Href("mailto", "", "webmaster", "")}
      [] url = Url("a.test", "/p1") ->
            {Href("", "", "/p2", ""), Href("", "", "/p3", ""),
             Href("", "", "/p2", "gallery"), Href("", "", "", "top")}
      [] url = Url("a.test", "/p2") ->
            {Href("", "", "/p1", ""), Href("https", "a.test", "/p3", ""),
             Href("", "", "/doc.pdf", "")}
      [] url = Url("a.test", "/p3") ->
            {Href("", "", "/p4", ""), Href("https", "b.test", "/x", "")}
      [] url = Url("a.test", "/p4") -> {Href("", "", "/", "")}
      [] url = Url("b.test", "/x") -> {Href("https", "a.test", "/p4", "")}
      [] url = Url("example.test", "/gallery") ->
            {Href("", "", "/set1", ""), Href("", "", "/set2", "")}
      [] url = Url("example.test", "/set1") ->
            {Href("", "", "/gallery", ""), Href("", "", "/set3", "")}
      [] url = Url("example.test", "/set2") -> {Href("", "", "/set1", "")}
      [] url = Url("example.test", "/set3") -> {}
      [] OTHER -> {}

\* The site: the image URLs _scrape_page extracts from each page
PageImages(url) ==
    CASE url = Url("a.test", "/") -> {"i1", "i2"}
      [] url = Url("a.test", "/p1") -> {"i2", "i3"}
      [] url = Url("a.test", "/p2") -> {"i3", "i4"}
      [] url = Url("a.test", "/p3") -> {}
      [] url = Url("a.test", "/p4") -> {"i5"}
      [] url = Url("b.test", "/x") -> {"j1"}
      [] url = Url("example.test", "/set1") -> {"g1", "g2", "g3"}
      [] url = Url("example.test", "/set2") -> {"g3", "g4", "g5"}
      [] url = Url("example.test", "/set3") -> {"g5"}
      [] OTHER -> {}

PdfPaths == {"/doc.pdf"}

\* _normalize_url(href, base): the fragment is dropped; an empty rest, a .pdf
\* and a scheme other than http(s) give None; urljoin fills in the base's
\* netloc.
NormalizeUrl(href, base) ==
    IF href.netloc = "" /\ href.path = "" THEN None
    ELSE IF href.path \in PdfPaths THEN None
    ELSE IF href.scheme \notin {"", "http", "https"} THEN None
    ELSE [scheme |-> IF href.scheme = "" THEN base.scheme ELSE href.scheme,
          netloc |-> IF href.netloc = "" THEN base.netloc ELSE href.netloc,
          path |-> href.path]

\* _get_base_url: scheme://netloc, the path dropped
GetBaseUrl(url) == [scheme |-> url.scheme, netloc |-> url.netloc, path |-> ""]

\* _is_valid_url: an http or https scheme and a netloc
IsValidUrl(url) == url.scheme \in {"http", "https"} /\ url.netloc # ""

\* Mutant: every link counts as being of the crawl's domain.
IsAnyDomain(url1, url2) == TRUE

\* _is_same_domain: the netlocs are equal
IsSameDomain(url1, url2) == url1.netloc = url2.netloc

\* _extract_domain_name: the host in lower case without a leading "www." and
\* without its port, cut to its first label when it has two labels or more
\* ("example.test" gives "example"); a host of one label is returned whole.
\* The hosts are those of the pages above.
ExtractDomainName(url) ==
    CASE url.netloc = "a.test" -> "a"
      [] url.netloc = "b.test" -> "b"
      [] url.netloc = "example.test" -> "example"
      [] OTHER -> url.netloc

\* Mutant: no page counts as visited.
NeverVisited(url) == FALSE

\* scrape_website: current_url in self.visited_urls
AlreadyVisited(url) == url \in visited_urls

\* Mutant: links are queued at the depth of the page they were found on.
SameDepth(depth) == depth

\* scrape_website: the depth handed to _find_page_links
LinkDepth(depth) == depth + 1

\* The set `links` of _find_page_links(url, depth), visited being
\* self.visited_urls at the call: the normalized hrefs that are not visited
\* and are of the crawl's domain
FindPageLinks(url, depth, visited) ==
    IF depth > max_depth THEN {}
    ELSE {[url |-> full_url, depth |-> depth] :
            full_url \in {u \in {NormalizeUrl(h, url) : h \in PageHrefs(url)} :
                            /\ u # None
                            /\ u \notin visited
                            /\ IsSameDomain(u, base_url)}}

\* list(a_set): the orders Python may give the elements in
Orderings(S) ==
    {q \in [1..Cardinality(S) -> S] : \A i, j \in 1..Cardinality(S) : i # j => q[i] # q[j]}

\* Mutant: every image of the page counts as new.
NewImagesUnfiltered(page_results, seen) == page_results

\* The images of page_results not seen before, in page_results order
NewImages(page_results, seen) == SelectSeq(page_results, LAMBDA img : img \notin seen)

\* The urls scrape_website is called with: two pages of the site, an ftp
\* URL, a text without scheme ("a.test/p2") and a URL without netloc
Seeds ==
    {Url("a.test", "/"), Url("a.test", "/p2"),
     [scheme |-> "ftp", netloc |-> "a.test", path |-> "/"],
     [scheme |-> "", netloc |-> "", path |-> "a.test/p2"],
     [scheme |-> "https", netloc |-> "", path |-> "/p1"]}

\* Mutant: the new entries go to the front of the frontier.
ExtendAtFront(frontier, new_entries) == new_entries \o frontier

\* urls_to_visit.extend(new_urls): the new entries go to the back; pop(0)
\* takes from the front
Extend(frontier, new_entries) == frontier \o new_entries

\* What the GETs of <base>/robots.txt meet. _can_fetch asks twice: first
\* requests.get, then, unless that raised or answered 200, rp.read() with
\* urllib. "unreachable": requests.get raises; "found": it answers 200;
\* otherwise it answers another status and urlopen then meets "absent" (a
\* 4xx other than 401 and 403), "forbidden" (401 or 403), "server_error"
\* (5xx), or "found_by_urllib" (a 200 whose lines are parsed).
RobotsTxt ==
    {"unreachable", "found", "absent", "forbidden", "server_error", "found_by_urllib"}

\* The paths the robots.txt of the site disallows for every user agent
RobotsDisallowed == {"/p2"}

\* A RobotFileParser: the three attributes can_fetch reads first, and the
\* paths its parsed entries disallow
Parser(disallow_all, allow_all, last_checked, disallowed) ==
    [disallow_all |-> disallow_all, allow_all |-> allow_all,
     last_checked |-> last_checked, disallowed |-> disallowed]

\* RobotFileParser() after set_url: nothing read yet
UnreadParser == Parser(FALSE, FALSE, FALSE, {})

\* The parser _can_fetch puts into robots_cache. requests.get raising is
\* swallowed with the parser unread. On a 200 rp.set_content(...) raises
\* AttributeError (RobotFileParser has no such method), which is swallowed
\* the same way before rp.read() is reached. On another status rp.read()
\* fetches the file again: HTTPError 401/403 sets disallow_all, another 4xx
\* sets allow_all, a 5xx sets nothing, a 200 is parsed.
ParserAfter(txt) ==
    CASE txt = "unreachable" -> UnreadParser
      [] txt = "found" -> UnreadParser
      [] txt = "absent" -> Parser(FALSE, TRUE, FALSE, {})
      [] txt = "forbidden" -> Parser(TRUE, FALSE, FALSE, {})
      [] txt = "server_error" -> UnreadParser
      [] txt = "found_by_urllib" -> Parser(FALSE, FALSE, TRUE, RobotsDisallowed)

\* The GETs of robots.txt one cache miss makes, in order
RobotsGets(base, txt) ==
    <<[url |-> base, by |-> "requests"]>> \o
    (IF txt \in {"unreachable", "found"} THEN <<>>
     ELSE <<[url |-> base, by |-> "urllib"]>>)

\* RobotFileParser.can_fetch(useragent, url)
CanFetch(parser, url) ==
    IF parser.disallow_all THEN FALSE
    ELSE IF parser.allow_all THEN TRUE
    ELSE IF ~parser.last_checked THEN FALSE
    ELSE url.path \notin parser.disallowed

\* scrape_website(url, max_images) up to its loop. An invalid url returns []
\* at once. With respect_robots, _can_fetch(url) is asked: a base URL not in
\* robots_cache has its robots.txt fetched (txt: what the GETs meet, "none"
\* when there is no GET) and its parser cached; a refusal returns the empty
\* list. hops, kept beside each frontier entry, counts the links followed
\* from the seed to reach it; visitLog lists the entries marked visited and
\* pushedUrls the URLs appended to the frontier, in order.
StartScrape(url, limit, txt) ==
    /\ UNCHANGED otherThanCrawl
    /\ crawlPc = "idle"
    /\ seed' = url
    /\ max_images' = limit
    /\ results' = <<>>
    /\ seen_urls' = {}
    /\ visitLog' = <<>>
    /\ pushedUrls' = <<>>
    /\ IF ~IsValidUrl(url)
       THEN /\ txt = "none"
            /\ urls_to_visit' = <<>>
            /\ crawlRequests' = <<>>
            /\ crawlPc' = "done"
            /\ UNCHANGED <<base_url, visited_urls, robots_cache, robotsRequests>>
       ELSE LET base == GetBaseUrl(url)
                miss == respect_robots /\ base \notin DOMAIN robots_cache
                parser == IF miss THEN ParserAfter(txt) ELSE robots_cache[base]
                allowed == ~respect_robots \/ CanFetch(parser, url)
            IN  /\ txt = "none" <=> ~miss
                /\ base_url' = base
                /\ visited_urls' = {}
                /\ robots_cache' = IF miss THEN (base :> parser) @@ robots_cache
                                   ELSE robots_cache
                /\ robotsRequests' = IF miss
                                     THEN robotsRequests \o RobotsGets(base, txt)
                                     ELSE robotsRequests
                /\ crawlRequests' =
                      (IF miss THEN <<[what |-> "robots", url |-> base, txt |-> txt]>>
                       ELSE <<>>) \o
                      (IF respect_robots
                       THEN <<[what |-> "can_fetch", url |-> url,
                               answer |-> CanFetch(parser, url)]>>
                       ELSE <<>>)
                /\ urls_to_visit' = IF allowed
                                    THEN <<[url |-> url, depth |-> 0, hops |-> 0]>>
                                    ELSE <<>>
                /\ crawlPc' = IF allowed THEN "running" ELSE "done"
    /\ UNCHANGED <<max_depth, respect_robots, crawlAwait>>

\* Mutant: the entry read stays in the frontier.
PoppedNothing(frontier) == frontier

\* urls_to_visit after pop(0)
Popped(frontier) == Tail(frontier)

\* The entry popped in the pass under way: the last page marked visited
Current == visitLog[Len(visitLog)]

\* A pass of the while loop from its test to its first await: the head of
\* the frontier is popped; an entry already visited or deeper than max_depth
\* is skipped (`continue`); otherwise it is marked visited and _scrape_page
\* sends the GET of the page, at which the call is suspended.
ScrapeVisit ==
    /\ UNCHANGED otherThanCrawl
    /\ crawlPc = "running"
    /\ crawlAwait = "none"
    /\ urls_to_visit # <<>>
    /\ Len(results) < max_images
    /\ LET current == Head(urls_to_visit)
       IN  /\ urls_to_visit' = Popped(urls_to_visit)
           /\ IF AlreadyVisited(current.url) \/ current.depth > max_depth
              THEN UNCHANGED <<visited_urls, visitLog, crawlRequests, crawlAwait>>
              ELSE /\ visited_urls' = visited_urls \cup {current.url}
                   /\ visitLog' = Append(visitLog, current)
                   /\ crawlRequests' = crawlRequests
                         \o <<[what |-> "page", url |-> current.url]>>
                   /\ crawlAwait' = "page"
    /\ UNCHANGED <<max_depth, respect_robots, robots_cache, robotsRequests,
                   base_url, crawlPc, max_images, results, seen_urls, seed, pushedUrls>>

\* The GET of the page is answered (pageOk: with status 200; page_results:
\* the order its images come out in) and the pass runs to its next await:
\* the images not seen before are added to results; then, below max_images
\* and max_depth, _find_page_links sends its GET, otherwise the pass goes to
\* its sleep.
ScrapePage(pageOk, page_results) ==
    /\ UNCHANGED otherThanCrawl
    /\ crawlPc = "running"
    /\ crawlAwait = "page"
    /\ LET current == Current
           new_images == NewImages(page_results, seen_urls)
           found == results \o [i \in 1..Len(new_images) |->
                       [url |-> new_images[i], source |-> ExtractDomainName(current.url)]]
           follow == Len(found) < max_images /\ current.depth < max_depth
       IN  /\ page_results \in
                 Orderings(IF pageOk THEN PageImages(current.url) ELSE {})
           /\ results' = found
           /\ seen_urls' = seen_urls \cup {new_images[i] : i \in 1..Len(new_images)}
           /\ IF follow
              THEN /\ crawlRequests' = crawlRequests
                         \o <<[what |-> "links", url |-> current.url]>>
                   /\ crawlAwait' = "links"
              ELSE /\ UNCHANGED crawlRequests
                   /\ crawlAwait' = "sleep"
    /\ UNCHANGED <<max_depth, respect_robots, robots_cache, robotsRequests,
                   base_url, visited_urls, crawlPc, max_images, urls_to_visit, seed,
                   visitLog, pushedUrls>>

\* The GET of _find_page_links is answered (linksOk: with status 200;
\* new_urls: the order list(links) comes out in): the links are filtered by
\* self.visited_urls and self.base_url as they are now and appended to the
\* frontier, and the pass goes to its sleep.
ScrapeLinks(linksOk, new_urls) ==
    /\ UNCHANGED otherThanCrawl
    /\ crawlPc = "running"
    /\ crawlAwait = "links"
    /\ LET current == Current
       IN  /\ new_urls \in
                 Orderings(IF linksOk
                           THEN FindPageLinks(current.url, LinkDepth(current.depth),
                                              visited_urls)
                           ELSE {})
           /\ urls_to_visit' = Extend(urls_to_visit,
                 [i \in 1..Len(new_urls) |->
                    [url |-> new_urls[i].url,
                     depth |-> new_urls[i].depth,
                     hops |-> current.hops + 1]])
           /\ pushedUrls' = pushedUrls \o
                 [i \in 1..Len(new_urls) |-> new_urls[i].url]
    /\ crawlAwait' = "sleep"
    /\ UNCHANGED <<max_depth, respect_robots, robots_cache, robotsRequests,
                   base_url, visited_urls, crawlPc, max_images, results, seen_urls,
                   seed, visitLog, crawlRequests>>

\* asyncio.sleep(REQUEST_DELAY) is over: the pass ends and the loop is at
\* its test again
ScrapeSleep ==
    /\ UNCHANGED otherThanCrawl
    /\ crawlPc = "running"
    /\ crawlAwait = "sleep"
    /\ crawlAwait' = "none"
    /\ UNCHANGED <<max_depth, respect_robots, robots_cache, robotsRequests,
                   base_url, visited_urls, crawlPc, max_images, urls_to_visit,
                   results, seen_urls, seed, visitLog, pushedUrls, crawlRequests>>

\* The loop ends: the frontier is empty or max_images are collected
ScrapeReturns ==
    /\ UNCHANGED otherThanCrawl
    /\ crawlPc = "running"
    /\ crawlAwait = "none"
    /\ urls_to_visit = <<>> \/ Len(results) >= max_images
    /\ crawlPc' = "done"
    /\ UNCHANGED <<max_depth, respect_robots, robots_cache, robotsRequests,
                   base_url, visited_urls, crawlAwait, max_images, urls_to_visit,
                   results, seen_urls, seed, visitLog, pushedUrls, crawlRequests>>

\* The caller has the list and the locals of the call are gone; the client,
\* with its base_url and visited_urls, is ready for the next scrape_website
ScrapeAgain ==
    /\ UNCHANGED otherThanCrawl
    /\ crawlPc = "done"
    /\ crawlPc' = "idle"
    /\ seed' = None
    /\ max_images' = 0
    /\ urls_to_visit' = <<>>
    /\ results' = <<>>
    /\ seen_urls' = {}
    /\ visitLog' = <<>>
    /\ pushedUrls' = <<>>
    /\ crawlRequests' = <<>>
    /\ UNCHANGED <<max_depth, respect_robots, robots_cache, robotsRequests,
                   base_url, visited_urls, crawlAwait>>

\* WebsiteClient(max_depth = d)
InitCrawl ==
    /\ EmptyDataDir
    /\ NothingBuilt
    /\ NoStoreOps
    /\ NoClient
    /\ max_depth \in 0..MaxCrawlDepth
    /\ respect_robots \in BOOLEAN
    /\ robots_cache = <<>>
    /\ robotsRequests = <<>>
    /\ base_url = [scheme |-> "", netloc |-> "", path |-> ""]
    /\ visited_urls = {}
    /\ crawlPc = "idle"
    /\ crawlAwait = "none"
    /\ max_images = 0
    /\ urls_to_visit = <<>>
    /\ results = <<>>
    /\ seen_urls = {}
    /\ seed = None
    /\ visitLog = <<>>
    /\ pushedUrls = <<>>
    /\ crawlRequests = <<>>
    /\ calls = <<>>

\* The page GET is answered, whatever the answer and the order of the images
ScrapePageAnswered ==
    \E pageOk \in BOOLEAN :
       \E page_results \in
             Orderings(IF pageOk /\ visitLog # <<>> THEN PageImages(Current.url) ELSE {}) :
          ScrapePage(pageOk, page_results)

\* The links GET is answered, whatever the answer and the order of the links
ScrapeLinksAnswered ==
    \E linksOk \in BOOLEAN :
       \E new_urls \in
             Orderings(IF linksOk /\ visitLog # <<>>
                       THEN FindPageLinks(Current.url, LinkDepth(Current.depth),
                                          visited_urls)
                       ELSE {}) :
          ScrapeLinks(linksOk, new_urls)

\* A step of the loop's pass
ScrapeIterates ==
    \/ ScrapeVisit
    \/ ScrapePageAnswered
    \/ ScrapeLinksAnswered
    \/ ScrapeSleep

NextCrawl ==
    \/ \E url \in Seeds, limit \in {1, 3, 10}, txt \in RobotsTxt \cup {"none"} :
          StartScrape(url, limit, txt)
    \/ ScrapeVisit
    \/ ScrapePageAnswered
    \/ ScrapeLinksAnswered
    \/ ScrapeSleep
    \/ ScrapeReturns
    \/ ScrapeAgain

SpecCrawl == InitCrawl /\ [][NextCrawl]_vars

\* The coroutine of scrape_website is resumed after each of its awaits (the
\* GETs have timeout=30 and timeout=15, the sleep is REQUEST_DELAY long), so
\* a loop that can make a pass makes it and a loop that has ended returns.
SpecCrawlLive ==
    /\ SpecCrawl
    /\ WF_vars(ScrapeIterates)
    /\ WF_vars(ScrapeReturns)

----------------------------------------------------------------------------
(* Two scrape_website calls on the same WebsiteClient, each a coroutine    *)
(* that runs from one await to the next while the other is suspended       *)

\* The calls made on the client
Calls == {1, 2}

\* The urls the two calls are made with: two pages of a.test and one of
\* b.test
OverlapSeeds == {Url("a.test", "/"), Url("a.test", "/p2"), Url("b.test", "/x")}

\* The locals of a scrape_website call that has not been made. pc: "idle",
\* "page" (suspended at the GET of _scrape_page), "links" (suspended at the
\* GET of _find_page_links), "sleep" (suspended at asyncio.sleep), "done"
\* (returned). current: the entry popped in the pass under way. visited
\* (ghost): the pages this call marked visited, in order.
IdleCall ==
    [pc |-> "idle", seed |-> None, max_images |-> 0, urls_to_visit |-> <<>>,
     results |-> <<>>, seen_urls |-> {}, current |-> None, visited |-> <<>>]

\* The frontier once the loop has popped and skipped (`continue`, no await)
\* its leading entries that are in visited_urls or deeper than max_depth
RECURSIVE DropSkipped(_, _)
DropSkipped(frontier, visited) ==
    IF frontier = <<>> THEN <<>>
    ELSE IF Head(frontier).url \in visited \/ Head(frontier).depth > max_depth
    THEN DropSkipped(Tail(frontier), visited)
    ELSE frontier

\* The while loop of call c from its test up to the next await, f being the
\* call's locals and visited the client's visited_urls there: with max_images
\* collected, or the frontier used up by skipping, the call returns;
\* otherwise the first entry not skipped is popped, marked visited and the
\* GET of its page is sent.
LoopResumes(c, f, visited) ==
    LET full == Len(f.results) >= f.max_images
        rest == IF full THEN f.urls_to_visit ELSE DropSkipped(f.urls_to_visit, visited)
    IN  IF full \/ rest = <<>>
        THEN /\ calls' = [calls EXCEPT ![c] =
                            [f EXCEPT !.pc = "done", !.urls_to_visit = rest,
                                      !.current = None]]
             /\ visited_urls' = visited
        ELSE /\ calls' = [calls EXCEPT ![c] =
                            [f EXCEPT !.pc = "page", !.urls_to_visit = Tail(rest),
                                      !.current = Head(rest),
                                      !.visited = Append(@, Head(rest).url)]]
             /\ visited_urls' = visited \cup {Head(rest).url}

\* scrape_website(url, max_images) is called and runs to its first await: an
\* invalid url returns [] at once; otherwise self.base_url is set,
\* self.visited_urls is cleared and the loop starts on the seed. (The client
\* has respect_robots off, so no robots check comes in between.)
CallStarts(c, url, limit) ==
    /\ UNCHANGED <<storeVars, buildVars, storeOpVars, clientVars>>
    /\ calls[c].pc = "idle"
    /\ ~respect_robots
    /\ IF ~IsValidUrl(url)
       THEN /\ calls' = [calls EXCEPT ![c] =
                           [IdleCall EXCEPT !.pc = "done", !.seed = url,
                                            !.max_images = limit]]
            /\ UNCHANGED <<base_url, visited_urls>>
       ELSE /\ base_url' = GetBaseUrl(url)
            /\ LoopResumes(c, [IdleCall EXCEPT !.seed = url, !.max_images = limit,
                                  !.urls_to_visit = <<[url |-> url, depth |-> 0]>>],
                           {})
    /\ UNCHANGED <<max_depth, respect_robots, robots_cache,
                   robotsRequests, crawlPc, crawlAwait, max_images, urls_to_visit,
                   results, seen_urls, seed, visitLog, pushedUrls, crawlRequests>>

\* The GET of _scrape_page is answered (pageOk: with status 200) and call c
\* runs to its next await: the images not seen before are added to results,
\* and then either _find_page_links sends its GET or, with max_images
\* reached or at max_depth, the pass goes to its sleep.
PageAnswers(c, pageOk, page_results) ==
    /\ UNCHANGED <<storeVars, buildVars, storeOpVars, clientVars>>
    /\ calls[c].pc = "page"
    /\ LET f == calls[c]
           new_images == NewImages(page_results, f.seen_urls)
           found == f.results \o [i \in 1..Len(new_images) |->
                       [url |-> new_images[i],
                        source |-> ExtractDomainName(f.current.url)]]
           follow == Len(found) < f.max_images /\ f.current.depth < max_depth
       IN  /\ page_results \in
                 Orderings(IF pageOk THEN PageImages(f.current.url) ELSE {})
           /\ calls' = [calls EXCEPT ![c] =
                 [f EXCEPT !.results = found,
                           !.seen_urls = @ \cup {new_images[i] : i \in 1..Len(new_images)},
                           !.pc = IF follow THEN "links" ELSE "sleep"]]
    /\ UNCHANGED crawlVars

\* The GET of _find_page_links is answered (linksOk: with status 200) and
\* call c runs to its sleep: the links are filtered by self.visited_urls and
\* self.base_url as they are now, and appended to the call's frontier.
LinksAnswer(c, linksOk, new_urls) ==
    /\ UNCHANGED <<storeVars, buildVars, storeOpVars, clientVars>>
    /\ calls[c].pc = "links"
    /\ LET f == calls[c]
       IN  /\ new_urls \in
                 Orderings(IF linksOk
                           THEN FindPageLinks(f.current.url, LinkDepth(f.current.depth),
                                              visited_urls)
                           ELSE {})
           /\ calls' = [calls EXCEPT ![c] =
                 [f EXCEPT !.urls_to_visit = Extend(@, new_urls), !.pc = "sleep"]]
    /\ UNCHANGED crawlVars

\* asyncio.sleep(REQUEST_DELAY) is over and call c goes round its loop
SleepEnds(c) ==
    /\ UNCHANGED <<storeVars, buildVars, storeOpVars, clientVars>>
    /\ calls[c].pc = "sleep"
    /\ LoopResumes(c, calls[c], visited_urls)
    /\ UNCHANGED <<max_depth, respect_robots, robots_cache,
                   robotsRequests, base_url, crawlPc, crawlAwait, max_images,
                   urls_to_visit, results, seen_urls, seed, visitLog, pushedUrls,
                   crawlRequests>>

\* The caller of call c has the list; the next call can be made
CallAgain(c) ==
    /\ UNCHANGED <<storeVars, buildVars, storeOpVars, clientVars>>
    /\ calls[c].pc = "done"
    /\ calls' = [calls EXCEPT ![c] = IdleCall]
    /\ UNCHANGED crawlVars

\* WebsiteClient(respect_robots = False, max_depth = 1), no call made yet
InitOverlap ==
    /\ EmptyDataDir
    /\ NothingBuilt
    /\ NoStoreOps
    /\ NoClient
    /\ max_depth = 1
    /\ respect_robots = FALSE
    /\ robots_cache = <<>>
    /\ robotsRequests = <<>>
    /\ base_url = [scheme |-> "", netloc |-> "", path |-> ""]
    /\ visited_urls = {}
    /\ crawlPc = "idle"
    /\ crawlAwait = "none"
    /\ max_images = 0
    /\ urls_to_visit = <<>>
    /\ results = <<>>
    /\ seen_urls = {}
    /\ seed = None
    /\ visitLog = <<>>
    /\ pushedUrls = <<>>
    /\ crawlRequests = <<>>
    /\ calls = [c \in Calls |-> IdleCall]

NextOverlap ==
    \/ \E c \in Calls, url \in OverlapSeeds : CallStarts(c, url, 10)
    \/ \E c \in Calls, pageOk \in BOOLEAN :
          \E page_results \in
                Orderings(IF pageOk /\ calls[c].current # None
                          THEN PageImages(calls[c].current.url) ELSE {}) :
             PageAnswers(c, pageOk, page_results)
    \/ \E c \in Calls, linksOk \in BOOLEAN :
          \E new_urls \in
                Orderings(IF linksOk /\ calls[c].current # None
                          THEN FindPageLinks(calls[c].current.url,
                                             LinkDepth(calls[c].current.depth),
                                             visited_urls)
                          ELSE {}) :
             LinksAnswer(c, linksOk, new_urls)
    \/ \E c \in Calls : SleepEnds(c)
    \/ \E c \in Calls : CallAgain(c)

SpecOverlap == InitOverlap /\ [][NextOverlap]_vars

----------------------------------------------------------------------------
(* The components of a crawl, as config.py lets them be built              *)

\* The settings class Config has (config.py): no BING_API_KEY,
\* UNSPLASH_ACCESS_KEY, BING_SEARCH_URL, UNSPLASH_SEARCH_URL, IMAGES_DIR or
\* CACHE_DIR
ConfigAttributes ==
    {"PEXELS_SEARCH_URL", "PEXELS_API_KEY", "KEYWORDS_EN", "KEYWORDS_CN",
     "MAX_SCRAPING_DEPTH", "RESPECT_ROBOTS_TXT", "MAX_IMAGES_PER_WEBSITE",
     "MIN_IMAGE_WIDTH", "MIN_IMAGE_HEIGHT", "ALLOWED_FORMATS", "MAX_FILE_SIZE",
     "REQUEST_DELAY", "MAX_CONCURRENT_REQUESTS", "DATA_DIR", "USER_AGENT"}

\* Config.validate_api_keys(): the sources it reports on
ValidateApiKeys(keys) ==
    [pexels |-> "PEXELS_API_KEY" \in keys, website |-> TRUE]

\* The sources APIManager.__init__ looks up in validate_api_keys(), in order
ClientOrder == <<"bing", "unsplash", "pexels">>

\* APIManager.__init__(self) called with the positional arguments `args`: it
\* takes none (TypeError for one); then api_keys[name] for each source in
\* turn, a KeyError at the first source validate_api_keys() does not report.
APIManagerInit(args, api_status) ==
    IF args # <<>> THEN "TypeError"
    ELSE IF \E i \in 1..Len(ClientOrder) : ClientOrder[i] \notin DOMAIN api_status
    THEN "KeyError"
    ELSE "built"

\* ImageProcessor.__init__(self) called with the keyword arguments `kwargs`:
\* it takes none (TypeError for one); then os.makedirs(Config.IMAGES_DIR) and
\* os.makedirs(Config.CACHE_DIR), an AttributeError for a setting Config
\* does not have.
ImageProcessorInit(kwargs) ==
    IF kwargs # {} THEN "TypeError"
    ELSE IF {"IMAGES_DIR", "CACHE_DIR"} \subseteq ConfigAttributes THEN "built"
    ELSE "AttributeError"

\* APIManager()
NewAPIManager ==
    /\ UNCHANGED otherThanBuild
    /\ api_manager = "unbuilt"
    /\ api_manager' = APIManagerInit(<<>>, ValidateApiKeys(api_keys))
    /\ UNCHANGED <<api_keys, image_processor, crawler, crawl_site>>

\* ImageProcessor()
NewImageProcessor ==
    /\ UNCHANGED otherThanBuild
    /\ image_processor = "unbuilt"
    /\ image_processor' = ImageProcessorInit({})
    /\ UNCHANGED <<api_keys, api_manager, crawler, crawl_site>>

\* BoxHuntCrawler(enabled_sources=...), as every command of main.py but
\* crawl-site builds it: APIManager(enabled_sources), then ImageProcessor(),
\* then the StorageManager and the index; the exception of the first
\* constructor that raises ends the construction.
NewBoxHuntCrawler(enabled_sources) ==
    /\ UNCHANGED otherThanBuild
    /\ crawler = "unbuilt"
    /\ LET manager == APIManagerInit(<<enabled_sources>>, ValidateApiKeys(api_keys))
           processor == ImageProcessorInit({})
       IN  crawler' = IF manager # "built" THEN manager
                      ELSE IF processor # "built" THEN processor
                      ELSE "built"
    /\ UNCHANGED <<api_keys, api_manager, image_processor, crawl_site>>

\* cmd_crawl_site(args) up to the end of its set-up: WebsiteClient(...) is
\* built, then ImageProcessor(domain_name=domain_name) raises, before the
\* try block, the StorageManager and the first request: the command ends with
\* that exception and the data directory as it was.
CmdCrawlSite ==
    /\ UNCHANGED otherThanBuild
    /\ crawl_site = "idle"
    /\ ImageProcessorInit({"domain_name"}) # "built"
    /\ crawl_site' = ImageProcessorInit({"domain_name"})
    /\ UNCHANGED <<api_keys, api_manager, image_processor, crawler>>

----------------------------------------------------------------------------
(* A source manager and a website client, one call at a time               *)

\* The environment sets PEXELS_API_KEY (the one key config.py reads) or not;
\* a WebsiteClient of any depth, no call made yet
InitSources ==
    /\ EmptyDataDir
    /\ NoStoreOps
    /\ NoClient
    /\ api_keys \in SUBSET {"PEXELS_API_KEY"}
    /\ api_manager = "unbuilt"
    /\ image_processor = "unbuilt"
    /\ crawler = "unbuilt"
    /\ crawl_site = "idle"
    /\ max_depth \in 0..MaxCrawlDepth
    /\ respect_robots \in BOOLEAN
    /\ robots_cache = <<>>
    /\ robotsRequests = <<>>
    /\ base_url = [scheme |-> "", netloc |-> "", path |-> ""]
    /\ visited_urls = {}
    /\ crawlPc = "idle"
    /\ crawlAwait = "none"
    /\ max_images = 0
    /\ urls_to_visit = <<>>
    /\ results = <<>>
    /\ seen_urls = {}
    /\ seed = None
    /\ visitLog = <<>>
    /\ pushedUrls = <<>>
    /\ crawlRequests = <<>>
    /\ calls = <<>>

NextSources ==
    \/ NewAPIManager
    \/ \E enabled_sources \in {<<>>, <<"pexels">>} : NewBoxHuntCrawler(enabled_sources)
    \/ NextCrawl

SpecSources == InitSources /\ [][NextSources]_vars

----------------------------------------------------------------------------
(* crawl-site URL --depth 1 --max-images 10 on the gallery site, and       *)
(* scrape_website on a WebsiteClient built as the command builds it        *)

\* The domain's store is empty or holds one row of an earlier save (u1: a
\* hash of decimal digits only, u2: not), under the source tag
\* _extract_domain_name gives the site; WebsiteClient(respect_robots = False,
\* max_depth = 1), no call made yet.
InitCrawlSite ==
    /\ NothingBuilt
    /\ NoStoreOps
    /\ NoClient
    /\ store \in {<<>>} \cup
          {SaveImageMetadata(<<>>,
              <<Metadata([url |-> u, source |-> "example"],
                         GenerateFilename(u, "example", 0), ImageHashOf(u))>>) :
             u \in {"u1", "u2"}}
    /\ files = MetadataFiles(store)
    /\ now = 0
    /\ lastCleanup = NoCleanup
    /\ max_depth = 1
    /\ calls = <<>>
    /\ respect_robots = FALSE
    /\ robots_cache = <<>>
    /\ robotsRequests = <<>>
    /\ base_url = [scheme |-> "", netloc |-> "", path |-> ""]
    /\ visited_urls = {}
    /\ crawlPc = "idle"
    /\ crawlAwait = "none"
    /\ max_images = 0
    /\ urls_to_visit = <<>>
    /\ results = <<>>
    /\ seen_urls = {}
    /\ seed = None
    /\ visitLog = <<>>
    /\ pushedUrls = <<>>
    /\ crawlRequests = <<>>

\* The site answers every GET
NextCrawlSite ==
    \/ CmdCrawlSite
    \/ NewImageProcessor
    \/ StartScrape(Url("example.test", "/gallery"), 10, "none")
    \/ ScrapeVisit
    \/ \E page_results \in
             Orderings(IF visitLog # <<>> THEN PageImages(Current.url) ELSE {}) :
          ScrapePage(TRUE, page_results)
    \/ \E new_urls \in
             Orderings(IF visitLog # <<>>
                       THEN FindPageLinks(Current.url, LinkDepth(Current.depth),
                                          visited_urls)
                       ELSE {}) :
          ScrapeLinks(TRUE, new_urls)
    \/ ScrapeSleep
    \/ ScrapeReturns

SpecCrawlSite == InitCrawlSite /\ [][NextCrawlSite]_vars

----------------------------------------------------------------------------
(* Claims about the store and the components of a crawl                    *)

\* C10: the ids of the store are pairwise distinct and strictly increasing in
\* row order; each save starts at max(existing id) + 1 (1 for an empty store)
\* and goes up by 1 per record, so row k of the store carries id k.
C10_IdsMonotonic ==
    /\ \A i, j \in 1..Len(store) : i < j => store[i].id < store[j].id
    /\ \A i \in 1..Len(store) : store[i].id = i

\* C10 witness: after a restart (a StorageManager built anew on the data
\* directory) a second save has added a row after the row of the first.
C10_Witness ==
    /\ Len(store) = 2
    /\ lastOp.name = "save_image_metadata"
    /\ lastOp.reopened
    /\ Len(lastOp.before) = 1

\* The filenames the records of the store name (the set M)
ReferencedFiles(rows) == {rows[i].filename : i \in 1..Len(rows)}

\* C8 as stated: cleanup_orphaned_files deletes exactly the files of N \ M and
\* returns |N \ M|, for N the files of the images directory and M the
\* filenames the store's records name.
C8_DeletesExactlyOrphans ==
    lastCleanup.called =>
        LET N == lastCleanup.dir
            M == ReferencedFiles(lastCleanup.rows)
        IN  /\ lastCleanup.removed = N \ M
            /\ lastCleanup.returned = Cardinality(N \ M)

\* C9: cleanup_orphaned_files never deletes a file whose name is the filename
\* of a record of the store.
C9_KeepsReferencedFiles ==
    lastCleanup.called =>
        LET M == ReferencedFiles(lastCleanup.rows)
        IN  /\ lastCleanup.removed \cap M = {}
            /\ \A f \in lastCleanup.dir \cap M : f \in files

\* C9 witness: a cleanup removed files from a directory that also held a file
\* a record names.
C9_Witness ==
    /\ lastCleanup.called
    /\ lastCleanup.removed # {}
    /\ lastCleanup.dir \cap ReferencedFiles(lastCleanup.rows) # {}

\* C14: a configuration failure is surfaced before any network activity, as
\* an empty result. With no API key set no client is configured: the source
\* manager asked for is then built with no client, so that its
\* search_all_sources returns the empty list at its first test. And
\* scrape_website with a seed that is not a valid http(s) URL returns the
\* empty list and issues no request.
C14_ConfigurationFailure ==
    /\ (api_keys = {} /\ api_manager # "unbuilt") => api_manager = "built"
    /\ (seed # None /\ ~(seed.scheme \in {"http", "https"} /\ seed.netloc # "")) =>
          /\ crawlPc = "done"
          /\ results = <<>>
          /\ crawlRequests = <<>>
          /\ visitLog = <<>>

----------------------------------------------------------------------------
(* Claims about WebsiteClient.scrape_website                               *)

\* C5: in a crawl with max_depth = D every page marked visited and fetched
\* was dequeued with depth <= D, the seed with depth 0 and a page reached by a
\* link found on a depth-d page with depth d + 1 (so the depth of an entry is
\* the number of links followed from the seed to reach it).
C5_DepthBound ==
    \A i \in 1..Len(visitLog) :
        /\ visitLog[i].depth <= max_depth
        /\ visitLog[i].depth = visitLog[i].hops
        /\ visitLog[i].url = seed <=> i = 1
        /\ i = 1 => visitLog[i].depth = 0

\* C5 happens: a page with links of the crawl's domain was visited at depth
\* max_depth >= 1 and the loop went on without queueing its links.
C5_Witness ==
    /\ max_depth >= 1
    /\ crawlPc = "running"
    /\ Len(results) < max_images
    /\ \E i \in 1..Len(visitLog) :
          /\ visitLog[i].depth = max_depth
          /\ \E h \in PageHrefs(visitLog[i].url) :
                /\ NormalizeUrl(h, visitLog[i].url) # None
                /\ NormalizeUrl(h, visitLog[i].url) \notin visited_urls
                /\ IsSameDomain(NormalizeUrl(h, visitLog[i].url), base_url)

\* C6: within one scrape_website call each URL is marked visited and scraped
\* at most once, even when different pages queued it several times.
C6_NoUrlProcessedTwice ==
    /\ \A i, j \in 1..Len(visitLog) : visitLog[i].url = visitLog[j].url => i = j
    /\ crawlPc = "running" => visited_urls = {visitLog[i].url : i \in 1..Len(visitLog)}

\* C6 happens: a URL was queued twice, by different pages, and the loop has
\* emptied the frontier, so both entries were dequeued.
C6_Witness ==
    /\ crawlPc = "running"
    /\ urls_to_visit = <<>>
    /\ \E i, j \in 1..Len(pushedUrls) : i < j /\ pushedUrls[i] = pushedUrls[j]

\* C7: every URL pushed onto the frontier other than the seed, and so every
\* page followed, has the netloc of the seed of that crawl.
C7_SameDomain ==
    seed # None =>
        /\ \A i \in 1..Len(pushedUrls) : pushedUrls[i].netloc = seed.netloc
        /\ \A i \in 1..Len(urls_to_visit) : urls_to_visit[i].url.netloc = seed.netloc
        /\ \A i \in 1..Len(visitLog) : visitLog[i].url.netloc = seed.netloc

\* C7 happens: the links of a visited page were pushed, one of its hrefs
\* pointing to another netloc.
C7_Witness ==
    /\ seed # None
    /\ \E i \in 1..Len(visitLog) :
          \E h, k \in PageHrefs(visitLog[i].url) :
             /\ NormalizeUrl(h, visitLog[i].url) # None
             /\ NormalizeUrl(h, visitLog[i].url).netloc # seed.netloc
             /\ NormalizeUrl(k, visitLog[i].url) # None
             /\ \E j \in 1..Len(pushedUrls) :
                   pushedUrls[j] = NormalizeUrl(k, visitLog[i].url)
             /\ visitLog[i].depth < max_depth

----------------------------------------------------------------------------
(* Claims about StorageManager on its own                                  *)

\* C11: the store is append-only: no StorageManager operation changes,
\* reorders or removes a row already written; save adds its rows after the
\* existing ones and every other operation, export included, leaves the
\* store as it is.
C11_AppendOnly ==
    [][/\ Len(store') >= Len(store)
       /\ SubSeq(store', 1, Len(store)) = store
       /\ lastOp'.name # "save_image_metadata" => store' = store]_vars

\* C11 happens: a save added rows after rows written before, and the file an
\* earlier export wrote does not hold them.
C11_Witness ==
    /\ lastOp.name = "save_image_metadata"
    /\ lastOp.before # <<>>
    /\ Len(store) > Len(lastOp.before)
    /\ exported # None
    /\ Len(exported.rows) = Len(lastOp.before)

----------------------------------------------------------------------------
(* Claims about the keyword API clients                                    *)

\* C12 as stated: a client's search_images never raises past its own
\* boundary, whatever the request ends in: it returns a list.
C12_NeverRaises == clientPc # "raised"

\* C15: without a credential search_images returns the empty list, issues no
\* HTTP request and does not raise; with one, the page size it sends is
\* min(requested count, provider maximum): it sends one request at most, and a
\* client whose search URL is configured sends exactly one.
C15_CredentialAndClamp ==
    client # None =>
        /\ client.api_key = "" =>
              /\ clientPc = "returned"
              /\ clientOut = <<>>
              /\ clientRequests = <<>>
        /\ client.api_key # "" =>
              /\ Len(clientRequests) <= 1
              /\ client.provider \in SearchUrls => Len(clientRequests) = 1
              /\ \A i \in 1..Len(clientRequests) :
                    /\ clientRequests[i].page_size <= client.count
                    /\ clientRequests[i].page_size <= ProviderLimit(client.provider)
                    /\ clientRequests[i].page_size \in
                          {client.count, ProviderLimit(client.provider)}

\* C15 happens: a client with a credential and a configured search URL was
\* asked for more than its provider allows and has returned what its request
\* was answered with.
C15_Witness ==
    /\ client # None
    /\ client.api_key # ""
    /\ client.provider \in SearchUrls
    /\ client.count > ProviderLimit(client.provider)
    /\ clientPc = "returned"
    /\ clientOut # <<>>

----------------------------------------------------------------------------
(* Claims about the limits and the order of a site crawl                   *)

\* C22 as stated: the list scrape_website(url, max_images) returns has at
\* most max_images candidates.
C22_AtMostMaxImages == crawlPc = "done" => Len(results) <= max_images

\* C30: the list of one scrape_website call holds no two candidates with the
\* same url, also when an image URL appears on several visited pages.
C30_NoRepeatedUrl ==
    \A i, j \in 1..Len(results) : results[i].url = results[j].url => i = j

\* C30 happens: the call has returned after scraping two pages that carry a
\* common image URL.
C30_Witness ==
    /\ crawlPc = "done"
    /\ \E i, j \in 1..Len(visitLog) :
          /\ i < j
          /\ PageImages(visitLog[i].url) \cap PageImages(visitLog[j].url) # {}
          /\ PageImages(visitLog[i].url) \cup PageImages(visitLog[j].url)
                \subseteq seen_urls

\* A sequence without the later occurrences of its repeated elements
RECURSIVE FirstOccurrences(_)
FirstOccurrences(q) ==
    IF q = <<>> THEN <<>>
    ELSE LET front == FirstOccurrences(SubSeq(q, 1, Len(q) - 1))
             last == q[Len(q)]
         IN  IF \E i \in 1..Len(front) : front[i] = last THEN front
             ELSE Append(front, last)

\* The URLs pushed onto the frontier that have been dequeued: all but those
\* still waiting in it
DequeuedUrls == SubSeq(pushedUrls, 1, Len(pushedUrls) - Len(urls_to_visit))

\* C29: the frontier is first in, first out: the pages visited after the seed
\* are the URLs pushed, in the order they were pushed (a URL pushed again is
\* skipped), so the order of the visits is fixed by the seed and the order
\* the links of each page came out in; the depths of the pages visited one
\* after the other never decrease, and no entry waiting in the frontier is
\* less deep than a page already visited.
C29_StrictFifo ==
    visitLog # <<>> =>
        /\ visitLog[1].url = seed
        /\ [i \in 1..Len(visitLog) - 1 |-> visitLog[i + 1].url]
              = FirstOccurrences(DequeuedUrls)
        /\ \A i, j \in 1..Len(visitLog) :
              i < j => visitLog[i].depth <= visitLog[j].depth
        /\ \A i \in 1..Len(visitLog), j \in 1..Len(urls_to_visit) :
              visitLog[i].depth <= urls_to_visit[j].depth

\* C29 happens: pages of depth 2 were visited after every page of depth 1,
\* a URL pushed twice among them.
C29_Witness ==
    /\ crawlPc = "running"
    /\ urls_to_visit = <<>>
    /\ \E i \in 1..Len(visitLog) : visitLog[i].depth = 2
    /\ Cardinality({i \in 1..Len(visitLog) : visitLog[i].depth = 1}) >= 2
    /\ \E i, j \in 1..Len(pushedUrls) : i < j /\ pushedUrls[i] = pushedUrls[j]

\* C25: a scrape_website call that is running ends, and when its loop stops
\* the frontier is empty or max_images candidates are collected.
C25_CrawlTerminates ==
    /\ (crawlPc = "running") ~> (crawlPc = "done")
    /\ [][crawlPc = "running" /\ crawlPc' = "done" =>
             urls_to_visit = <<>> \/ Len(results) >= max_images]_vars

\* C25 happens: one call has ended on an empty frontier after following
\* links that lead back to pages already visited, or has ended with the
\* frontier not empty because max_images were collected.
C25_Witness ==
    /\ crawlPc = "done"
    /\ \/ /\ urls_to_visit = <<>>
          /\ Len(results) < max_images
          /\ \E i, j \in 1..Len(pushedUrls) : i < j /\ pushedUrls[i] = pushedUrls[j]
       \/ /\ urls_to_visit # <<>>
          /\ Len(results) >= max_images

----------------------------------------------------------------------------
(* Claims about robots.txt                                                 *)

\* The requests of the call that fetch a page: the GET of _scrape_page and
\* the GET of _find_page_links
PageFetches == {k \in 1..Len(crawlRequests) : crawlRequests[k].what \in {"page", "links"}}

\* C23 as stated: with respect_robots, every page fetch of the call comes
\* after a robots check of that URL that allowed it, and no URL the cached
\* parser disallows is fetched.
C23_RobotsCheckedBeforeFetch ==
    respect_robots =>
        \A k \in PageFetches :
            /\ \E j \in 1..(k - 1) :
                  /\ crawlRequests[j].what = "can_fetch"
                  /\ crawlRequests[j].url = crawlRequests[k].url
                  /\ crawlRequests[j].answer
            /\ CanFetch(robots_cache[GetBaseUrl(crawlRequests[k].url)],
                        crawlRequests[k].url)

\* C24 as stated: with respect_robots, the robots.txt of a base URL is
\* fetched at most once by one client, and a check that found robots.txt
\* absent or unreachable answers "allowed" and the crawl proceeds.
C24_RobotsFetchedOnceAndTolerant ==
    respect_robots =>
        /\ \A i, j \in 1..Len(robotsRequests) :
              robotsRequests[i].url = robotsRequests[j].url => i = j
        /\ \A k \in 1..Len(crawlRequests) :
              (/\ crawlRequests[k].what = "robots"
               /\ crawlRequests[k].txt \in {"absent", "unreachable"})
              => /\ crawlRequests[k + 1].what = "can_fetch"
                 /\ crawlRequests[k + 1].answer
                 /\ crawlPc = "running" \/ visitLog # <<>>

----------------------------------------------------------------------------
(* Claims about hashes read back from the store                            *)

\* C26 as stated: after any sequence of save_image_metadata calls,
\* get_existing_hashes returns exactly the perceptual_hash texts of the
\* saved records, character for character.
C26_HashRoundTrip ==
    lastOp.name = "get_existing_hashes" =>
        lastOp.returned = {store[i].perceptual_hash : i \in 1..Len(store)}

----------------------------------------------------------------------------
(* Claims about a whole site crawl                                         *)

\* The five image URLs of the two linked pages of the gallery site
GalleryImages == {"g1", "g2", "g3", "g4", "g5"}

\* C21: the crawl of the gallery site (max_depth 1, max_images 10: a seed
\* linking to two pages of the domain with 3 image URLs each, one of them on
\* both) returns after visiting exactly the seed and the two pages, with
\* exactly the 5 distinct image URLs as candidates; and when the crawl-site
\* command has ended, it has ended without an exception and the store holds
\* its earlier rows followed by exactly 5 new rows, one per image URL, with
\* strictly increasing ids.
C21_GalleryScenario ==
    /\ crawlPc = "done" =>
          /\ Len(visitLog) = 3
          /\ {visitLog[k].url : k \in 1..Len(visitLog)} =
                {Url("example.test", "/gallery"), Url("example.test", "/set1"),
                 Url("example.test", "/set2")}
          /\ Len(results) = 5
          /\ {results[k].url : k \in 1..Len(results)} = GalleryImages
    /\ crawl_site # "idle" =>
          /\ crawl_site = "done"
          /\ Len(store) >= 5
          /\ {store[k].url : k \in (Len(store) - 4)..Len(store)} = GalleryImages
          /\ \A k \in 1..(Len(store) - 5) : store[k].url \notin GalleryImages
          /\ \A k \in 1..(Len(store) - 1) : store[k].id < store[k + 1].id

----------------------------------------------------------------------------
(* Claims about errors and repeated calls of a site crawl                  *)

\* The image URLs of the candidates collected so far
ResultUrls == {results[k].url : k \in 1..Len(results)}

\* C31: a pass of the loop that fetches a page and gains no candidate (the
\* GET failed, or the page carries no new image) keeps the candidates
\* collected so far, leaves the crawl running and leaves the entries that
\* were behind the page in the frontier, in their order, at its front; and a
\* running crawl can always take its next step (the next step of its pass or
\* its return), so scrape_website goes on to the next entry rather than
\* raising. Step by step: popping an entry takes the head of the frontier
\* only and leaves the candidates; from the page GET to the end of the sleep
\* the crawl stays running, the candidates and the frontier keep what they
\* held, in order, and grow at their back only.
C31_EmptyPageDoesNotStop ==
    /\ [][(crawlPc = "running" /\ crawlAwait = "none" /\ crawlPc' = "running")
            => /\ results' = results
               /\ urls_to_visit' = Tail(urls_to_visit)]_vars
    /\ [][(crawlPc = "running" /\ crawlAwait # "none")
            => /\ crawlPc' = "running"
               /\ Len(results') >= Len(results)
               /\ SubSeq(results', 1, Len(results)) = results
               /\ Len(urls_to_visit') >= Len(urls_to_visit)
               /\ SubSeq(urls_to_visit', 1, Len(urls_to_visit)) = urls_to_visit]_vars
    /\ [](crawlPc = "running" => ENABLED (ScrapeIterates \/ ScrapeReturns))

\* C31 happens: the crawl has returned candidates after it visited a page
\* whose GET failed (none of the images the page carries was collected)
\* and a page that carries no image, each followed by another visit.
C31_Witness ==
    /\ crawlPc = "done"
    /\ results # <<>>
    /\ \E k \in 1..(Len(visitLog) - 1) :
          /\ PageImages(visitLog[k].url) # {}
          /\ PageImages(visitLog[k].url) \cap ResultUrls = {}
    /\ \E k \in 1..(Len(visitLog) - 1) : PageImages(visitLog[k].url) = {}

\* C32 as stated: the visited set and the base URL a running scrape_website
\* call consults are its own: the set holds exactly the pages this call has
\* visited, each of them once, and the base URL is that of this call's seed,
\* whatever other calls are made on the same client.
C32_VisitedSetScopedToCall ==
    \A c \in DOMAIN calls :
        calls[c].pc \in {"page", "links", "sleep"} =>
            /\ visited_urls = {calls[c].visited[k] : k \in 1..Len(calls[c].visited)}
            /\ \A j, k \in 1..Len(calls[c].visited) :
                  j # k => calls[c].visited[j] # calls[c].visited[k]
            /\ base_url = GetBaseUrl(calls[c].seed)

----------------------------------------------------------------------------
(* Claims about the statistics of a store                                  *)

\* The number of rows of the store that carry the URL
RowsWithUrl(url) == Cardinality({i \in 1..Len(store) : store[i].url = url})

RECURSIVE SumOfCounts(_)
\* The sum of the values of a mapping with finite domain
SumOfCounts(counts) ==
    IF DOMAIN counts = {} THEN 0
    ELSE LET k == CHOOSE x \in DOMAIN counts : TRUE
         IN  counts[k] + SumOfCounts([x \in DOMAIN counts \ {k} |-> counts[x]])

\* C33 as stated: what get_statistics returns reflects the store:
\* total_images is the number of rows, total_size the sum of their file
\* sizes, sources maps every source tag of a row to the number of rows that
\* carry it, and so the per-source counts add up to total_images; all are
\* zero on an empty store.
C33_StatisticsReflectStore ==
    lastOp.name = "get_statistics" =>
        /\ lastOp.returned.total_images = Len(store)
        /\ lastOp.returned.total_size =
              FileSizeOf("u1") * RowsWithUrl("u1") + FileSizeOf("u2") * RowsWithUrl("u2")
        /\ \A i \in 1..Len(store) :
              /\ store[i].source \in DOMAIN lastOp.returned.sources
              /\ lastOp.returned.sources[store[i].source] =
                    Cardinality({j \in 1..Len(store) : store[j].source = store[i].source})
        /\ SumOfCounts(lastOp.returned.sources) = lastOp.returned.total_images

============================================================================
